---- MODULE Spec2Model ----
(***************************************************************************)
(* Model of pqdi4all.py: a frameless launcher window (WebViewer) holding a  *)
(* bar of FloatingButtons and an embedded browser (DraggableWebView).       *)
(* The WebViewer instance, its child widgets, the embedded browser and the  *)
(* QSettings store are one record, app; every handler of the source is an   *)
(* operator from records to records, and every action applies one handler.  *)
(***************************************************************************)
EXTENDS Integers, Sequences, FiniteSets, TLC

VARIABLES app, running, pointer, buttons, grab

vars == <<app, running, pointer, buttons, grab>>

-----------------------------------------------------------------------------
(* Bounds of the model *)

\* the pointer and the window range over the points (0,0) .. (MaxX,0) of
\* the top edge of the screen
MaxX == 1
\* number of entries the browser keeps in its session history
MaxHist == 2
\* number of urlChanged signals that may be waiting for delivery
MaxPending == 1

-----------------------------------------------------------------------------
(* Values *)

\* Python's None; a tuple, so that it compares with QPoint and QUrl values
None == <<>>

LeftButton == "LeftButton"
RightButton == "RightButton"
MouseButtons == {LeftButton, RightButton}

about_blank == "about:blank"
base_url == "https://www.pqdi.cc/spells"
p99_url == "https://wiki.project1999.com/"
\* a page of one of the sites, reached by following a link
other_url == "https://www.pqdi.cc/spell/13"

expanded_size == <<1000, 600>>
collapsed_size == <<290, 60>>

\* QPoint values: the points of the (bounded) screen
QPoints == {<<x, 0>> : x \in 0..MaxX}

\* QPoint.__add__ and QPoint.__sub__
QPointAdd(p, q) == <<p[1] + q[1], p[2] + q[2]>>
QPointSub(p, q) == <<p[1] - q[1], p[2] - q[2]>>

\* Python truth value of an Optional[QPoint]: None is false, and so is a
\* null QPoint (QPoint.__bool__ is "not isNull()", isNull() is x == 0 and y == 0)
Truthy(p) == p # None /\ ~(p[1] = 0 /\ p[2] = 0)

\* QUrl(string) and QUrl.toString()
QUrl(s) == <<"QUrl", s>>
toString(u) == u[2]

\* QSettings keeps a bool as the text "true"/"false"; value(..., type=bool) reads it back
BoolToVariant(b) == IF b THEN "true" ELSE "false"
VariantToBool(v) == v = "true"

\* the draggable surfaces: a FloatingButton of the bar (float_button stands
\* for the five instances, which run the same code), the DraggableWebView and
\* the WebViewer window itself
Surfaces == {"float_button", "web_view", "window"}
NoSurface == "none"

\* the pages a link or a redirect can lead to
NavTargets == {base_url, p99_url, other_url}

\* a page of a site that no button is configured for
unknown_url == "https://www.eqtraders.com/"

\* the targets a caller may hand to load_website
Requests == {base_url, p99_url, unknown_url}

-----------------------------------------------------------------------------
(* The embedded browser *)

\* the session history after a load of u: entries past the current one are
\* dropped, u is appended, and the oldest entry is pruned beyond MaxHist
HistoryPush(h, i, u) ==
    LET h1 == Append(SubSeq(h, 1, i), u)
    IN  IF Len(h1) > MaxHist THEN Tail(h1) ELSE h1

\* QWebEngineHistory.canGoBack()
canGoBack(w) == w.index > 1

-----------------------------------------------------------------------------
(* WebViewer *)

\* QSettings.value(key, default)
value(w, key, default) ==
    IF w.settings = <<>> THEN default ELSE w.settings[1][key]

\* mutant: the record is written without the expanded flag of the window
save_window_position_collapsed(w) ==
    [w EXCEPT !.settings =
        << [window_position |-> w.pos,
            window_state    |-> BoolToVariant(FALSE),
            current_url     |-> toString(w.url)] >>]

save_window_position(w) ==
    [w EXCEPT !.settings =
        << [window_position |-> w.pos,
            window_state    |-> BoolToVariant(w.website_loaded),
            current_url     |-> toString(w.url)] >>]

\* mutant: only the PQDI url counts as a site's home page
handle_url_change_base_only(w, url) ==
    IF w.website_loaded
    THEN IF toString(url) \notin {base_url}
         THEN [w EXCEPT !.back_button = TRUE]
         ELSE [w EXCEPT !.back_button = FALSE]
    ELSE w

\* mutant: the slot does not look at website_loaded
handle_url_change_unguarded(w, url) ==
    IF toString(url) \notin {base_url, p99_url}
    THEN [w EXCEPT !.back_button = TRUE]
    ELSE [w EXCEPT !.back_button = FALSE]

handle_url_change(w, url) ==
    IF w.website_loaded
    THEN IF toString(url) \notin {base_url, p99_url}
         THEN [w EXCEPT !.back_button = TRUE]
         ELSE [w EXCEPT !.back_button = FALSE]
    ELSE w

\* the urlChanged signal, connected to handle_url_change: the slot runs inside
\* the call that changed the url (sync) or later from the event loop
emit_urlChanged(w, url, sync) ==
    IF sync THEN handle_url_change(w, url)
    ELSE [w EXCEPT !.pending = Append(@, url)]

\* web_view.setUrl(url): the url property changes at once, the page is loaded
\* as a new history entry, urlChanged is emitted when the url has changed
setUrl(w, url, sync) ==
    IF w.url = url THEN w
    ELSE emit_urlChanged(
            [w EXCEPT !.url = url,
                      !.history = HistoryPush(w.history, w.index, url),
                      !.index = Len(HistoryPush(w.history, w.index, url))],
            url, sync)

\* web_view.back()
back(w, sync) ==
    IF ~canGoBack(w) THEN w
    ELSE LET w1 == [w EXCEPT !.index = w.index - 1,
                             !.url = w.history[w.index - 1]]
         IN  IF w1.url = w.url THEN w1 ELSE emit_urlChanged(w1, w1.url, sync)

go_back(w, sync) == back(w, sync)

\* mutant: collapsing does not hide the back button
toggle_website_keeps_back(w, sync) ==
    IF ~w.website_loaded
    THEN [w EXCEPT !.size = expanded_size,
                   !.web_view = TRUE,
                   !.close_button = FALSE,
                   !.hide_button = TRUE,
                   !.website_loaded = TRUE]
    ELSE [setUrl(w, QUrl(about_blank), sync) EXCEPT
                   !.web_view = FALSE,
                   !.size = collapsed_size,
                   !.hide_button = FALSE,
                   !.close_button = TRUE,
                   !.website_loaded = FALSE]

\* mutant: collapsing leaves the browser on its page
toggle_website_keeps_url(w, sync) ==
    IF ~w.website_loaded
    THEN [w EXCEPT !.size = expanded_size,
                   !.web_view = TRUE,
                   !.close_button = FALSE,
                   !.hide_button = TRUE,
                   !.website_loaded = TRUE]
    ELSE [w EXCEPT !.web_view = FALSE,
                   !.size = collapsed_size,
                   !.back_button = FALSE,
                   !.hide_button = FALSE,
                   !.close_button = TRUE,
                   !.website_loaded = FALSE]

\* mutant: expanding leaves the Close button in the bar
toggle_website_keeps_close(w, sync) ==
    IF ~w.website_loaded
    THEN [w EXCEPT !.size = expanded_size,
                   !.web_view = TRUE,
                   !.hide_button = TRUE,
                   !.website_loaded = TRUE]
    ELSE [setUrl(w, QUrl(about_blank), sync) EXCEPT
                   !.web_view = FALSE,
                   !.size = collapsed_size,
                   !.back_button = FALSE,
                   !.hide_button = FALSE,
                   !.close_button = TRUE,
                   !.website_loaded = FALSE]

toggle_website(w, sync) ==
    IF ~w.website_loaded
    THEN [w EXCEPT !.size = expanded_size,
                   !.web_view = TRUE,
                   !.close_button = FALSE,
                   !.hide_button = TRUE,
                   !.website_loaded = TRUE]
    ELSE [setUrl(w, QUrl(about_blank), sync) EXCEPT
                   !.web_view = FALSE,
                   !.size = collapsed_size,
                   !.back_button = FALSE,
                   !.hide_button = FALSE,
                   !.close_button = TRUE,
                   !.website_loaded = FALSE]

\* mutant: the page is requested without expanding the window
load_website_unexpanded(w, url, sync) ==
    setUrl(w, QUrl(url), sync)

\* mutant: the window is toggled on every request
load_website_toggles(w, url, sync) ==
    setUrl(toggle_website(w, sync), QUrl(url), sync)

load_website(w, url, sync) ==
    setUrl(IF ~w.website_loaded THEN toggle_website(w, sync) ELSE w,
           QUrl(url), sync)

hide_website(w, sync) ==
    IF w.website_loaded THEN toggle_website(w, sync) ELSE w

\* the clicked signals of the two site buttons, as initUI connects them
SiteButtons == {"float_button", "p99_button"}

\* mutant: both site buttons are connected to the PQDI url
clicked_same_site(w, button, sync) ==
    CASE button = "float_button" -> load_website(w, base_url, sync)
      [] button = "p99_button"   -> load_website(w, base_url, sync)

clicked(w, button, sync) ==
    CASE button = "float_button" -> load_website(w, base_url, sync)
      [] button = "p99_button"   -> load_website(w, p99_url, sync)

\* mutant: the window is created at the expanded size
initUI_expanded_size(store, at) ==
    [ settings       |-> store,
      website_loaded |-> FALSE,
      pos            |-> at,
      size           |-> expanded_size,
      back_button    |-> FALSE,
      hide_button    |-> FALSE,
      close_button   |-> TRUE,
      web_view       |-> FALSE,
      url            |-> QUrl(about_blank),
      history        |-> << QUrl(about_blank) >>,
      index          |-> 1,
      pending        |-> << >>,
      press          |-> [s \in Surfaces |-> [pos |-> None, delta |-> None]] ]

\* the fields and widgets as __init__ and initUI leave them; store is the
\* content of the QSettings store, at is where the window system puts a
\* window that is never moved
initUI(store, at) ==
    [ settings       |-> store,
      website_loaded |-> FALSE,
      pos            |-> at,
      size           |-> collapsed_size,
      back_button    |-> FALSE,
      hide_button    |-> FALSE,
      close_button   |-> TRUE,
      web_view       |-> FALSE,
      url            |-> QUrl(about_blank),
      history        |-> << QUrl(about_blank) >>,
      index          |-> 1,
      pending        |-> << >>,
      press          |-> [s \in Surfaces |-> [pos |-> None, delta |-> None]] ]

\* the load of about:blank that initUI has just requested is still in flight
\* when restore_window_position requests the saved page in the same call of
\* __init__: the browser may commit it as a history entry (kept) or drop it
supersede(w, kept) ==
    IF kept THEN w ELSE [w EXCEPT !.history = << >>, !.index = 0]

\* mutant: a missing window_state reads as expanded
restore_window_position_expanded(w, sync, kept) ==
    LET position == value(w, "window_position", None)
        w1 == IF Truthy(position) THEN [w EXCEPT !.pos = position] ELSE w
        was_expanded == VariantToBool(value(w, "window_state", BoolToVariant(TRUE)))
    IN  IF was_expanded
        THEN setUrl(supersede(toggle_website(w1, sync), kept),
                    QUrl(value(w1, "current_url", base_url)), sync)
        ELSE w1

restore_window_position(w, sync, kept) ==
    LET position == value(w, "window_position", None)
        w1 == IF Truthy(position) THEN [w EXCEPT !.pos = position] ELSE w
        was_expanded == VariantToBool(value(w, "window_state", BoolToVariant(FALSE)))
    IN  IF was_expanded
        THEN setUrl(supersede(toggle_website(w1, sync), kept),
                    QUrl(value(w1, "current_url", base_url)), sync)
        ELSE w1

\* WebViewer.__init__
WebViewer(store, at, sync, kept) ==
    restore_window_position(initUI(store, at), sync, kept)

\* mutant: the close event is accepted without writing the record
closeEvent_unsaved(w) == w

closeEvent(w) == save_window_position(w)

-----------------------------------------------------------------------------
(* Drag handlers of the three surfaces *)

FloatingButton_mousePressEvent(w, s, button, globalPos) ==
    IF button = LeftButton
    THEN [w EXCEPT !.press[s] = [pos |-> globalPos, delta |-> w.pos]]
    ELSE w

FloatingButton_mouseMoveEvent(w, s, held, globalPos) ==
    IF held = {LeftButton} /\ Truthy(w.press[s].pos)
    THEN save_window_position(
            [w EXCEPT !.pos = QPointAdd(w.press[s].delta,
                                        QPointSub(globalPos, w.press[s].pos))])
    ELSE w

FloatingButton_mouseReleaseEvent(w, s, button) ==
    IF button = LeftButton THEN [w EXCEPT !.press[s].pos = None] ELSE w

DraggableWebView_mousePressEvent(w, s, button, globalPos) ==
    IF button = LeftButton
    THEN [w EXCEPT !.press[s] = [pos |-> globalPos, delta |-> w.pos]]
    ELSE w

\* mutant: the browser surface moves the window without writing the record
DraggableWebView_mouseMoveEvent_unsaved(w, s, held, globalPos) ==
    IF held = {LeftButton} /\ w.press[s].pos # None
    THEN [w EXCEPT !.pos = QPointAdd(w.press[s].delta,
                                     QPointSub(globalPos, w.press[s].pos))]
    ELSE w

DraggableWebView_mouseMoveEvent(w, s, held, globalPos) ==
    IF held = {LeftButton} /\ w.press[s].pos # None
    THEN save_window_position(
            [w EXCEPT !.pos = QPointAdd(w.press[s].delta,
                                        QPointSub(globalPos, w.press[s].pos))])
    ELSE w

DraggableWebView_mouseReleaseEvent(w, s, button) ==
    IF button = LeftButton THEN [w EXCEPT !.press[s].pos = None] ELSE w

WebViewer_mousePressEvent(w, s, button, globalPos) ==
    IF button = LeftButton
    THEN [w EXCEPT !.press[s] = [pos |-> globalPos, delta |-> w.pos]]
    ELSE w

\* mutant: the window follows the pointer whatever buttons are held
WebViewer_mouseMoveEvent_any_button(w, s, held, globalPos) ==
    IF w.press[s].pos # None
    THEN save_window_position(
            [w EXCEPT !.pos = QPointAdd(w.press[s].delta,
                                        QPointSub(globalPos, w.press[s].pos))])
    ELSE w

WebViewer_mouseMoveEvent(w, s, held, globalPos) ==
    IF held = {LeftButton} /\ w.press[s].pos # None
    THEN save_window_position(
            [w EXCEPT !.pos = QPointAdd(w.press[s].delta,
                                        QPointSub(globalPos, w.press[s].pos))])
    ELSE w

\* mutant: the window clears its anchor when any button goes up
WebViewer_mouseReleaseEvent_any(w, s, button) ==
    [w EXCEPT !.press[s].pos = None]

WebViewer_mouseReleaseEvent(w, s, button) ==
    IF button = LeftButton THEN [w EXCEPT !.press[s].pos = None] ELSE w

\* dispatch of a pointer event to the handler of the surface's class
mousePressEvent(w, s, button, globalPos) ==
    CASE s = "float_button" -> FloatingButton_mousePressEvent(w, s, button, globalPos)
      [] s = "web_view"     -> DraggableWebView_mousePressEvent(w, s, button, globalPos)
      [] s = "window"       -> WebViewer_mousePressEvent(w, s, button, globalPos)

mouseMoveEvent(w, s, held, globalPos) ==
    CASE s = "float_button" -> FloatingButton_mouseMoveEvent(w, s, held, globalPos)
      [] s = "web_view"     -> DraggableWebView_mouseMoveEvent(w, s, held, globalPos)
      [] s = "window"       -> WebViewer_mouseMoveEvent(w, s, held, globalPos)

mouseReleaseEvent(w, s, button) ==
    CASE s = "float_button" -> FloatingButton_mouseReleaseEvent(w, s, button)
      [] s = "web_view"     -> DraggableWebView_mouseReleaseEvent(w, s, button)
      [] s = "window"       -> WebViewer_mouseReleaseEvent(w, s, button)

-----------------------------------------------------------------------------
(* Event delivery *)

\* a surface is on screen: the PQDI button and the window always are, the
\* browser surface only while the window is expanded
Visible(s) == s # NoSurface /\ (s = "web_view" => app.web_view)

\* the surface that holds the pointer since a button went down receives the
\* pointer events until every button is up again
Receives(s) == Visible(s) /\ (buttons = {} \/ grab = s \/ ~Visible(grab))

\* a deferred urlChanged signal needs room in the event queue
MayEmit(sync) == sync \/ Len(app.pending) < MaxPending

-----------------------------------------------------------------------------
(* Actions *)

\* first start: nothing stored yet
Init ==
    /\ running = TRUE
    /\ buttons = {}
    /\ grab = NoSurface
    /\ pointer \in QPoints
    /\ \E at \in QPoints : app = WebViewer(<< >>, at, TRUE, TRUE)

\* a pointer button goes down on a surface, where the pointer is
MousePress(s, b) ==
    /\ running /\ Receives(s) /\ b \notin buttons
    /\ app' = mousePressEvent(app, s, b, pointer)
    /\ buttons' = buttons \cup {b}
    /\ grab' = s
    /\ UNCHANGED <<running, pointer>>

\* the pointer moves to g over a surface; the window stays on the bounded screen
MouseMove(s, g) ==
    /\ running /\ Receives(s) /\ g # pointer
    /\ mouseMoveEvent(app, s, buttons, g).pos \in QPoints
    /\ app' = mouseMoveEvent(app, s, buttons, g)
    /\ pointer' = g
    /\ UNCHANGED <<running, buttons, grab>>

\* a pointer button goes up
MouseRelease(s, b) ==
    /\ running /\ Receives(s) /\ b \in buttons
    /\ app' = mouseReleaseEvent(app, s, b)
    /\ buttons' = buttons \ {b}
    /\ grab' = IF buttons' = {} THEN NoSurface ELSE s
    /\ UNCHANGED <<running, pointer>>

\* float_button.clicked / p99_button.clicked
ClickSite(button, sync) ==
    /\ running /\ MayEmit(sync)
    /\ app' = clicked(app, button, sync)
    /\ UNCHANGED <<running, pointer, buttons, grab>>

\* a call of load_website(url) by any caller, for the contract of the method
LoadWebsite(url, sync) ==
    /\ running /\ MayEmit(sync)
    /\ app' = load_website(app, url, sync)
    /\ UNCHANGED <<running, pointer, buttons, grab>>

\* hide_button.clicked
ClickHide(sync) ==
    /\ running /\ app.hide_button /\ MayEmit(sync)
    /\ app' = hide_website(app, sync)
    /\ UNCHANGED <<running, pointer, buttons, grab>>

\* back_button.clicked
ClickBack(sync) ==
    /\ running /\ app.back_button /\ MayEmit(sync)
    /\ app' = go_back(app, sync)
    /\ UNCHANGED <<running, pointer, buttons, grab>>

\* the page shown follows a link or is redirected: the browser loads the new
\* page and reports it
Navigate(url) ==
    /\ running /\ app.web_view /\ app.url # QUrl(about_blank)
    /\ app.url # QUrl(url)
    /\ app' = setUrl(app, QUrl(url), TRUE)
    /\ UNCHANGED <<running, pointer, buttons, grab>>

\* the server answers the request for the page shown with a redirect: the
\* browser commits the page under the new url, in the same history entry, and
\* reports the new url
Redirect(url) ==
    /\ running /\ app.web_view /\ app.url # QUrl(about_blank)
    /\ app.url # QUrl(url) /\ app.index >= 1
    /\ app' = handle_url_change([app EXCEPT !.url = QUrl(url),
                                            !.history[app.index] = QUrl(url)],
                                QUrl(url))
    /\ UNCHANGED <<running, pointer, buttons, grab>>

\* the event loop delivers a waiting urlChanged signal
DeliverUrlChanged ==
    /\ running /\ app.pending # << >>
    /\ app' = handle_url_change([app EXCEPT !.pending = Tail(@)],
                                Head(app.pending))
    /\ UNCHANGED <<running, pointer, buttons, grab>>

\* what is left of a process that has ended: the QSettings store
Ended(store) == initUI(store, <<0, 0>>)

\* close_button.clicked: close() sends the close event, the application quits
ClickClose ==
    /\ running /\ app.close_button
    /\ app' = Ended(closeEvent(app).settings)
    /\ running' = FALSE /\ buttons' = {} /\ grab' = NoSurface
    /\ UNCHANGED pointer

\* the window system closes the window
SystemClose ==
    /\ running
    /\ app' = Ended(closeEvent(app).settings)
    /\ running' = FALSE /\ buttons' = {} /\ grab' = NoSurface
    /\ UNCHANGED pointer

\* the process ends without a close event
Kill ==
    /\ running
    /\ app' = Ended(app.settings)
    /\ running' = FALSE /\ buttons' = {} /\ grab' = NoSurface
    /\ UNCHANGED pointer

\* main(): a new process constructs the WebViewer over the stored settings
Start(sync, kept) ==
    /\ ~running
    /\ \E at \in QPoints : app' = WebViewer(app.settings, at, sync, kept)
    /\ running' = TRUE
    /\ UNCHANGED <<pointer, buttons, grab>>

-----------------------------------------------------------------------------
(* Specifications.  The drag handlers and the browser handlers meet only in  *)
(* the window position and in the stored record, and the product of all     *)
(* their events is beyond enumeration, so the behaviours are explored in     *)
(* specifications over the same handlers.        SpecBrowse gives the        *)
(* browser and the buttons every event, with urlChanged delivered inside     *)
(* the handlers or later, and no pointer event.  SpecDrag gives every        *)
(* surface every pointer event and opens and hides the PQDI site.  SpecStore *)
(* drags the window by its own surface while sites are opened, browsed and   *)
(* hidden, for the content of the stored record.                            *)

NextBrowse ==
    \/ \E button \in SiteButtons, sync \in BOOLEAN : ClickSite(button, sync)
    \/ \E sync \in BOOLEAN : ClickHide(sync)
    \/ \E sync \in BOOLEAN : ClickBack(sync)
    \/ \E url \in NavTargets : Navigate(url)
    \/ DeliverUrlChanged
    \/ ClickClose
    \/ SystemClose
    \/ Kill
    \/ \E sync \in BOOLEAN, kept \in BOOLEAN : Start(sync, kept)

SpecBrowse == Init /\ [][NextBrowse]_vars

NextDrag ==
    \/ \E s \in Surfaces, b \in MouseButtons : MousePress(s, b)
    \/ \E s \in Surfaces, g \in QPoints : MouseMove(s, g)
    \/ \E s \in Surfaces, b \in MouseButtons : MouseRelease(s, b)
    \/ ClickSite("float_button", TRUE)
    \/ ClickHide(TRUE)
    \/ ClickClose
    \/ SystemClose
    \/ Kill
    \/ Start(TRUE, TRUE)

SpecDrag == Init /\ [][NextDrag]_vars

NextStore ==
    \/ MousePress("window", LeftButton)
    \/ \E g \in QPoints : MouseMove("window", g)
    \/ MouseRelease("window", LeftButton)
    \/ \E button \in SiteButtons : ClickSite(button, TRUE)
    \/ \E sync \in BOOLEAN : ClickHide(sync)
    \/ ClickBack(TRUE)
    \/ Navigate(other_url)
    \/ DeliverUrlChanged
    \/ ClickClose
    \/ SystemClose
    \/ Kill
    \/ Start(TRUE, TRUE)

SpecStore == Init /\ [][NextStore]_vars

\* SpecLoad calls load_website with every target, configured or not
NextLoad ==
    \/ \E url \in Requests, sync \in BOOLEAN : LoadWebsite(url, sync)
    \/ \E button \in SiteButtons : ClickSite(button, TRUE)
    \/ \E sync \in BOOLEAN : ClickHide(sync)
    \/ ClickBack(TRUE)
    \/ DeliverUrlChanged
    \/ SystemClose
    \/ Start(TRUE, TRUE)

SpecLoad == Init /\ [][NextLoad]_vars

\* SpecPage is the browser at its most orderly: every urlChanged signal runs
\* its slot at once and the blank page of initUI is no history entry of a
\* restarted session; pages are reached by links and by redirects
NextPage ==
    \/ \E button \in SiteButtons : ClickSite(button, TRUE)
    \/ ClickHide(TRUE)
    \/ ClickBack(TRUE)
    \/ \E url \in NavTargets : Navigate(url)
    \/ \E url \in NavTargets : Redirect(url)
    \/ SystemClose
    \/ Start(TRUE, FALSE)

SpecPage == Init /\ [][NextPage]_vars

-----------------------------------------------------------------------------
(* Properties of the drag handlers, checked under SpecDrag *)

\* a pointer-move on surface s with only the primary button held would move
\* the window (or write the record)
Armed(w, s) ==
    \E g \in QPoints : mouseMoveEvent(w, s, {LeftButton}, g) # w

\* the stored record holds the position of the window
PositionStored(w) ==
    w.settings # << >> /\ w.settings[1].window_position = w.pos

\* C1: on every draggable surface, every pointer-move delivered with only the
\* primary button held between a primary-button pointer-down and its release
\* puts the window at anchorWindowPos + (globalPos - anchorGlobalPos),
\* whatever the anchor and whatever the moves before it.
C1_DragFollowsPointer ==
    [][\A s \in Surfaces, g \in QPoints :
          (MouseMove(s, g) /\ buttons = {LeftButton} /\ app.press[s].pos # None)
             => app'.pos = QPointAdd(app.press[s].delta,
                                     QPointSub(g, app.press[s].pos))]_vars

\* C8 as claimed: a pointer-up of any button on a surface clears the anchor
\* of that surface, so that no later pointer-move on it moves the window.
C8_AnyReleaseClearsAnchor ==
    [][\A s \in Surfaces, b \in MouseButtons :
          MouseRelease(s, b) => ~Armed(app', s)]_vars

\* C8 as amended: a pointer-up of the primary button on a surface clears the
\* anchor of that surface, a pointer-up of another button leaves the anchor as
\* it was, and a surface whose anchor is clear moves the window again only
\* after a new primary-button pointer-down on it.
C8_PrimaryReleaseClearsAnchor ==
    [][\A s \in Surfaces :
          /\ \A b \in MouseButtons :
                MouseRelease(s, b) =>
                    IF b = LeftButton
                    THEN app'.press[s].pos = None /\ ~Armed(app', s)
                    ELSE app'.press[s] = app.press[s]
          /\ (running /\ running' /\ ~Armed(app, s) /\ Armed(app', s)) =>
                MousePress(s, LeftButton)]_vars

\* the primary button went up on a surface while another button is still
\* held on it: the anchor is clear
C8_Witness ==
    \E s \in Surfaces :
        /\ running /\ grab = s /\ buttons = {RightButton}
        /\ app.press[s].delta # None /\ app.press[s].pos = None

\* C9: after every pointer-move that moves the window the stored
\* window_position is the position of the window, and so it is at the
\* primary-button pointer-up that ends a drag which has moved the window.
C9_DragPositionPersisted ==
    [][/\ \A s \in Surfaces, g \in QPoints :
            (MouseMove(s, g) /\ app'.pos # app.pos) => PositionStored(app')
       /\ \A s \in Surfaces :
            (MouseRelease(s, LeftButton) /\ app.press[s].pos # None
                /\ app.pos # app.press[s].delta) => PositionStored(app')]_vars

\* a drag in progress that has moved the window away from its anchor
C9_Witness ==
    \E s \in Surfaces :
        /\ running /\ buttons = {LeftButton} /\ grab = s
        /\ app.press[s].pos # None /\ app.pos # app.press[s].delta
        /\ PositionStored(app)

-----------------------------------------------------------------------------
(* Properties of the window controller, checked under SpecBrowse and, for   *)
(* the stored record, SpecStore                                              *)

IsSite(u) == toString(u) \in {base_url, p99_url}

\* the url values of the model
Urls == {QUrl(s) : s \in NavTargets \cup {about_blank}}

\* the stored record, read back, is the state of window w
StateStored(store, w) ==
    /\ store # << >>
    /\ VariantToBool(store[1].window_state) = w.website_loaded
    /\ QUrl(store[1].current_url) = w.url

\* this step delivers the urlChanged signal with url u to handle_url_change:
\* from the event loop, or inside the handler that has changed the url
Delivered(u) ==
    \/ /\ app.pending # << >>
       /\ u = Head(app.pending)
       /\ DeliverUrlChanged
    \/ /\ u = app'.url
       /\ app'.url # app.url
       /\ \/ \E url \in NavTargets : Navigate(url)
          \/ \E button \in SiteButtons : ClickSite(button, TRUE)
          \/ ClickHide(TRUE)
          \/ ClickBack(TRUE)
          \/ \E kept \in BOOLEAN : Start(TRUE, kept)

\* C2: hide in an Expanded state leaves the window at the collapsed size with
\* the browser surface hidden and the back button not visible, and the back
\* button is not visible in any Collapsed state that follows, whether the
\* urlChanged signal of the blank page ran inside hide or is delivered later.
C2_HideCollapses ==
    [][/\ \A sync \in BOOLEAN :
            (ClickHide(sync) /\ app.website_loaded) =>
                /\ app'.size = collapsed_size
                /\ ~app'.web_view
                /\ ~app'.back_button
                /\ ~app'.website_loaded
       /\ ~app'.website_loaded => ~app'.back_button]_vars

\* hidden, with the urlChanged signal of the blank page still to be delivered
C2_Witness ==
    /\ running /\ ~app.website_loaded /\ app.size = collapsed_size
    /\ ~app.web_view /\ ~app.back_button
    /\ app.pending = << QUrl(about_blank) >>

\* C3: a click on a site button in the Collapsed state leaves the window
\* Expanded, at the expanded size, with the browser surface shown and the
\* browser at the url configured for that site.
C3_LoadSiteExpands ==
    [][\A sync \in BOOLEAN :
          /\ (ClickSite("float_button", sync) /\ ~app.website_loaded) =>
                /\ app'.website_loaded /\ app'.size = expanded_size
                /\ app'.web_view
                /\ app'.url = QUrl("https://www.pqdi.cc/spells")
          /\ (ClickSite("p99_button", sync) /\ ~app.website_loaded) =>
                /\ app'.website_loaded /\ app'.size = expanded_size
                /\ app'.web_view
                /\ app'.url = QUrl("https://wiki.project1999.com/")]_vars

\* the P99 site has been opened from the collapsed bar
C3_Witness ==
    /\ running /\ app.website_loaded /\ app.size = expanded_size /\ app.web_view
    /\ app.history = << QUrl(about_blank), QUrl(p99_url) >> /\ app.index = 2
    /\ app.url = QUrl(p99_url)

\* C4: a start over a stored record {expanded: true, currentUrl: U,
\* position: P} ends with the window at P, Expanded, the browser at U, for
\* every U and every P.
C4_RestoreExpanded ==
    [][\A sync \in BOOLEAN, kept \in BOOLEAN :
          (Start(sync, kept) /\ app.settings # << >>
              /\ VariantToBool(app.settings[1].window_state)) =>
                /\ app'.pos = app.settings[1].window_position
                /\ app'.website_loaded
                /\ app'.url = QUrl(app.settings[1].current_url)]_vars

C7_SaveLoadRoundTrip ==
    [][\A sync \in BOOLEAN, kept \in BOOLEAN :
          (Start(sync, kept) /\ app.settings # << >>) =>
                /\ PositionStored(app')
                /\ StateStored(app.settings, app')]_vars

\* C10: in every Collapsed state the browser is at the blank page.
C10_CollapsedIsBlank ==
    ~app.website_loaded => app.url = QUrl(about_blank)

\* collapsed by hide after a page was shown, every signal delivered
C10_Witness ==
    /\ running /\ ~app.website_loaded /\ app.pending = << >>
    /\ app.index = 2 /\ app.history[1] # QUrl(about_blank)
    /\ app.url = QUrl(about_blank)

-----------------------------------------------------------------------------
(* Properties of load_website, checked under SpecLoad *)

Configured == {base_url, p99_url}

-----------------------------------------------------------------------------
(* Invariants of the window controller, checked under SpecBrowse *)

\* C12: in every reachable state the Close button is visible exactly when the
\* window is Collapsed and the Hide button exactly when it is Expanded, so a
\* click on Close is possible only in a Collapsed state and a click on Hide
\* only in an Expanded one.
C12_AffordancesFollowState ==
    /\ app.close_button <=> ~app.website_loaded
    /\ app.hide_button <=> app.website_loaded
    /\ (ENABLED ClickClose) => ~app.website_loaded
    /\ (ENABLED ClickHide(TRUE)) => app.website_loaded

\* a start has replayed an expanded window: Hide is offered, Close is not
C12_Witness ==
    /\ running /\ app.settings # << >> /\ app.website_loaded
    /\ app.hide_button /\ ~app.close_button /\ ~(ENABLED ClickClose)

\* the state of a window that startup has left at the defaults, at the
\* position the window system gave it
AtDefaults(w) ==
    /\ ~w.website_loaded
    /\ w.size = collapsed_size
    /\ ~w.web_view
    /\ w.url = QUrl(about_blank)
    /\ \E at \in QPoints : w = initUI(<< >>, at)

C14_CloseStoresFinalState ==
    [][/\ (ClickClose \/ SystemClose) =>
            /\ app'.settings # << >>
            /\ app'.settings[1].window_position = app.pos
            /\ VariantToBool(app'.settings[1].window_state) = app.website_loaded
            /\ QUrl(app'.settings[1].current_url) = app.url
       /\ (\E sync \in BOOLEAN, kept \in BOOLEAN : Start(sync, kept)) =>
            app'.settings = app.settings]_vars

\* closed by the window system while Expanded on a linked page, away from
\* the origin of the screen
C14_Witness ==
    /\ ~running
    /\ app.settings = << [window_position |-> <<1, 0>>,
                          window_state    |-> "true",
                          current_url     |-> other_url] >>

\* C15: a click on a site button in an Expanded state puts the browser at the
\* url of that site and leaves the expanded flag, the size and the position
\* of the window and the visibility of the Hide and Close buttons as they were.
C15_LoadSiteWhenExpanded ==
    [][\A button \in SiteButtons, sync \in BOOLEAN :
          (ClickSite(button, sync) /\ app.website_loaded) =>
              /\ app'.url = QUrl(IF button = "float_button"
                                 THEN "https://www.pqdi.cc/spells"
                                 ELSE "https://wiki.project1999.com/")
              /\ app'.website_loaded
              /\ app'.size = app.size
              /\ app'.pos = app.pos
              /\ app'.hide_button = app.hide_button
              /\ app'.close_button = app.close_button]_vars

\* the P99 site was opened while the PQDI site was shown
C15_Witness ==
    /\ running /\ app.website_loaded /\ app.size = expanded_size
    /\ app.url = QUrl(p99_url) /\ app.index > 1
    /\ app.history[app.index - 1] = QUrl(base_url)

\* C17: in every reachable state the back button is visible only if the
\* window is Expanded, and a click on it leaves the expanded flag and the
\* size of the window as they were.
C17_BackOnlyWhenExpanded ==
    /\ [](app.back_button => app.website_loaded)
    /\ [][\A sync \in BOOLEAN :
             ClickBack(sync) =>
                 /\ app'.website_loaded = app.website_loaded
                 /\ app'.size = app.size]_vars

\* the back button has taken the expanded window one entry back
C17_Witness ==
    /\ running /\ app.website_loaded /\ app.size = expanded_size
    /\ app.index < Len(app.history) /\ app.url = app.history[app.index]

\* C18: in every reachable Expanded state, after the replay of a start and
\* after any site buttons, links, redirects and back clicks, the browser is
\* not at the blank page.
C18_ExpandedNeverBlank ==
    (running /\ app.website_loaded) => app.url # QUrl(about_blank)

-----------------------------------------------------------------------------
(* Frame properties of the drag handlers, checked under SpecDrag *)

\* C16: on every surface, a pointer-down of a button other than the primary
\* one leaves the anchor of the surface as it was, and a pointer-move that
\* arrives while the surface has no anchor, or while the buttons held are not
\* exactly the primary one, leaves the position of the window and the stored
\* record as they were.
C16_NoAnchorNoMove ==
    [][\A s \in Surfaces :
          /\ MousePress(s, RightButton) => app'.press[s] = app.press[s]
          /\ \A g \in QPoints :
                (MouseMove(s, g)
                    /\ (app.press[s].pos = None \/ buttons # {LeftButton})) =>
                        /\ app'.pos = app.pos
                        /\ app'.settings = app.settings]_vars

\* both buttons are held on the window, the pointer has left the anchor, and
\* the window is where it was at the pointer-down, with nothing stored
C16_Witness ==
    /\ running /\ grab = "window" /\ buttons = {LeftButton, RightButton}
    /\ app.press["window"].pos # None /\ pointer # app.press["window"].pos
    /\ app.pos = app.press["window"].delta /\ app.settings = << >>

-----------------------------------------------------------------------------
(* Size and expanded flag, checked under SpecStore *)

====
